---- MODULE Spec2Model ----
(***************************************************************************)
(* A model of gahelloworld.py (Python 2): the Chromosome value with its    *)
(* mate / mutate / genRandom operators and the Population with its         *)
(* tournament selection and its evolve() generation step.                  *)
(*                                                                         *)
(* A gene is a sequence of character codes (ord / chr are the identity on  *)
(* codes 0..255, so a string is modelled by the codes of its characters).  *)
(* A rate and a value of random() are numbers of quarters: the rate 0.5 is *)
(* 2, random() returns one of 0, 1/4, 2/4, 3/4, modelled 0..3.             *)
(***************************************************************************)
EXTENDS Integers, Sequences, FiniteSets, TLC

\* ------------------------------------------------------------------ bounds
\* Largest population size given to Population.__init__.
MaxSize == 2
\* Number of characters of the target string that are kept.
TargetLen == 2
\* Number of evolve() calls the driver loop makes.
maxGenerations == 2
\* Longest gene of a free-standing chromosome (ChromosomeSpec).
MaxGeneLen == 2

\* How far evolve()'s buffer is counted past the population size.
MaxOvershoot == 2

\* The values of randint(0, 89) explored by genRandom where a population is
\* built (32 + 40 = 'H', 32 + 69 = 'e') and by mutate where it evolves.
RandintDraws == {40, 69}
MutateDraws == {69}
\* The values of random(), in quarters.
RandomDraws == 0 .. 3
\* ChromosomeSpec: the character codes of the chromosome operated on and of
\* its partner, and the values of randint(0, 89) genRandom is tried on;
\* mutate is tried on every value of randint(0, 89).
SampleCodes == {0, 72, 121, 150}
PartnerCodes == {72, 121}
GenDraws == {0, 40, 89}
AllRandint == 0 .. 89
\* Constructor arguments explored, in quarters.
ElitismRates == {-6, -2, 0, 2, 4, 6}
CrossoverRates == {-1, 0, 4}
MutationRates == {-1, 2}

\* ------------------------------------------------------------ Python helpers
Abs(x) == IF x < 0 THEN -x ELSE x
Min(a, b) == IF a <= b THEN a ELSE b
Max(a, b) == IF a >= b THEN a ELSE b

\* s[0:i] of Python: a negative i counts from the end.
SliceTo(s, i) ==
    IF i >= 0 THEN SubSeq(s, 1, Min(i, Len(s)))
    ELSE SubSeq(s, 1, Max(Len(s) + i, 0))

\* s[i:] of Python, for i >= 0.
SliceFrom(s, i) == SubSeq(s, Min(i, Len(s)) + 1, Len(s))

\* int(round(n / 4.0)) of Python 2: halves round away from zero.
RoundQuarters(n) ==
    IF n >= 0 THEN (2 * n + 4) \div 8 ELSE -((2 * (-n) + 4) \div 8)

\* ---------------------------------------------------------------- Chromosome
\* "Hello, world!"
HelloWorld == <<72, 101, 108, 108, 111, 44, 32, 119, 111, 114, 108, 100, 33>>
target_gene == SubSeq(HelloWorld, 1, TargetLen)

\* Chromosome._updateFitness: zip stops at the shorter of the two strings.
updateFitness(gene) ==
    LET n == Min(Len(gene), Len(target_gene))
        sum[i \in 0 .. n] ==
            IF i = 0 THEN 0 ELSE sum[i - 1] + Abs(gene[i] - target_gene[i])
    IN sum[n]

\* Chromosome.__init__
Chromosome(gene) == [gene |-> gene, fitness |-> updateFitness(gene)]

\* pivot = randint(0, len(self.gene) - 1): the values it can take.
MatePivots_upToLen(gene) == 0 .. Len(gene)
MatePivots(gene) == 0 .. (Len(gene) - 1)

\* Chromosome.mate, for the pivot drawn.
mate(self, other, pivot) ==
    <<Chromosome(SliceTo(self.gene, pivot) \o SliceFrom(other.gene, pivot)),
      Chromosome(SliceTo(other.gene, pivot) \o SliceFrom(self.gene, pivot))>>

\* delta = randint(0, 89) + 32, for the value d drawn.
Delta_noOffset(d) == d
Delta(d) == d + 32

\* idx = randint(0, len(gene) - 1): the values it can take.
MutateIndices(gene) == 0 .. (Len(gene) - 1)

\* chr((ord(c) + delta) % 122)
MutatedChar_mod128(c, delta) == (c + delta) % 128
MutatedChar(c, delta) == (c + delta) % 122

\* Chromosome.mutate, for the value d of randint(0, 89) and the 0-based index.
mutate(self, d, i) ==
    Chromosome([self.gene EXCEPT ![i + 1] = MutatedChar(self.gene[i + 1], Delta(d))])

\* The character genRandom appends for the value d of randint(0, 89).
RandomChar(d) == d + 32

\* Chromosome.genRandom, for the sequence of values drawn.
genRandom(draws) == Chromosome([x \in 1 .. Len(target_gene) |-> RandomChar(draws[x])])

\* ---------------------------------------------------------------- Population
VARIABLES
    population,   \* Population._population
    elitism,      \* Population._elitism, in quarters
    mutation,     \* Population._mutation, in quarters
    crossover,    \* Population._crossover, in quarters
    pc,           \* where evolve() stands: "idle", "while", "if", "raised"
    idx,          \* evolve()'s local idx
    buf,          \* evolve()'s local buf: its first len(population) entries,
                  \* the only ones line 215 reads (buf[0:size])
    bufLen,       \* len(buf), counted up to len(population) + MaxOvershoot
    rnd,          \* the value random() returned at line 199, -1 when none is held
    generation,   \* the driver's count of completed evolve() calls
    chrom,        \* ChromosomeSpec: the chromosome operated on
    partner,      \* ChromosomeSpec: the argument of mate
    children,     \* ChromosomeSpec: what the last operation returned
    op            \* ChromosomeSpec: the last operation, "none" at first

vars == <<population, elitism, mutation, crossover, pc, idx, buf, bufLen, rnd,
          generation, chrom, partner, children, op>>
popVars == <<population, elitism, mutation, crossover, pc, idx, buf, bufLen, rnd, generation>>
chromVars == <<chrom, partner, children, op>>

tournamentSize == 3

\* sorted(buf, key=lambda x: x.fitness): a stable sort.
RECURSIVE sorted(_)
Insert(s, x) ==
    LET k == Cardinality({j \in 1 .. Len(s) : s[j].fitness <= x.fitness})
    IN SubSeq(s, 1, k) \o <<x>> \o SubSeq(s, k + 1, Len(s))
sorted(s) ==
    IF s = <<>> THEN <<>>
    ELSE Insert(sorted(SubSeq(s, 1, Len(s) - 1)), s[Len(s)])

\* seq[i] of Python for a 0-based i; a negative i counts from the end.
InRange(seq, i) == -Len(seq) <= i /\ i < Len(seq)
Item(seq, i) == IF i >= 0 THEN seq[i + 1] ELSE seq[Len(seq) + i + 1]

\* Population.__tournamentSelection, for the 1 + tournamentSize indices drawn.
tournamentSelection(pop, draws) ==
    LET best[i \in 1 .. (tournamentSize + 1)] ==
            IF i = 1 THEN Item(pop, draws[1])
            ELSE LET cont == Item(pop, draws[i])
                 IN IF cont.fitness < best[i - 1].fitness THEN cont ELSE best[i - 1]
    IN best[tournamentSize + 1]

\* Every chromosome one call of __tournamentSelection can return.
TournamentResults(pop) ==
    {tournamentSelection(pop, d) :
        d \in [1 .. (tournamentSize + 1) -> 0 .. (Len(pop) - 1)]}

\* buf.append(c), of which the entries that buf[0:size] reads are kept.
AppendBuf(b, c, size) == IF Len(b) < size THEN Append(b, c) ELSE b

\* len(buf) after n appends.
Appended(len, n, size) == Min(len + n, size + MaxOvershoot)

\* What lines 203-206 (and 209-212) append for chromosome c: c.mutate() when
\* random() <= mutation, c itself otherwise.
MutationOutcomes(c, rate) ==
    {c2 \in {c} : \E r \in RandomDraws : ~(r <= rate)}
    \cup {mutate(c, d, i) : d \in {x \in MutateDraws : \E r \in RandomDraws : r <= rate},
                            i \in MutateIndices(c.gene)}

\* "++idx" (line 213): two unary plus signs, the value of idx.
PlusPlus(i) == i

\* idx = int(round(size * self._elitism))
EliteCount(size, rate) == RoundQuarters(size * rate)

\* buf = self._population[0:idx]
Elite_oneShort(pop, k) == SliceTo(pop, k - 1)
Elite_fromSecond(pop, k) == SubSeq(SliceTo(pop, k), 2, Len(SliceTo(pop, k)))
Elite(pop, k) == SliceTo(pop, k)

\* list(sorted(buf[0:size], key=lambda x: x.fitness)) (line 215)
NextGeneration_unsorted(b, size) == SliceTo(b, size)
NextGeneration_oneShort(b, size) == sorted(SliceTo(b, size - 1))
NextGeneration(b, size) == sorted(SliceTo(b, size))

\* Population.__init__: size random chromosomes, sorted by fitness.
InitPopulation ==
    /\ \E size \in 0 .. MaxSize :
         \E draws \in [1 .. size -> [1 .. Len(target_gene) -> RandintDraws]] :
            population = sorted([i \in 1 .. size |-> genRandom(draws[i])])
    /\ elitism \in ElitismRates
    /\ mutation \in MutationRates
    /\ crossover \in CrossoverRates
    /\ pc = "idle"
    /\ idx = 0
    /\ buf = <<>>
    /\ bufLen = 0
    /\ rnd = -1
    /\ generation = 0

NoChromosome == Chromosome(<<>>)

Init ==
    /\ InitPopulation
    /\ chrom = NoChromosome
    /\ partner = NoChromosome
    /\ children = <<>>
    /\ op = "none"

\* evolve(), lines 194-196.
evolve_begin ==
    /\ pc = "idle"
    /\ generation < maxGenerations
    /\ idx' = EliteCount(Len(population), elitism)
    /\ buf' = Elite(population, idx')
    /\ bufLen' = Len(buf')
    /\ pc' = "while"
    /\ UNCHANGED <<population, elitism, mutation, crossover, rnd, generation>>

\* Lines 198-199: the loop test holds and random() is called.
evolve_draw ==
    /\ pc = "while"
    /\ idx < Len(population)
    /\ rnd' \in RandomDraws
    /\ pc' = "if"
    /\ UNCHANGED <<population, elitism, mutation, crossover, idx, buf, bufLen, generation>>

\* Lines 200-207: the crossover path.
evolve_crossover ==
    /\ pc = "if"
    /\ rnd <= crossover
    /\ \E p1 \in TournamentResults(population), p2 \in TournamentResults(population) :
         \E pivot \in MatePivots(p1.gene) :
            LET cs == mate(p1, p2, pivot) IN
            \E c1 \in MutationOutcomes(cs[1], mutation),
               c2 \in MutationOutcomes(cs[2], mutation) :
                 buf' = AppendBuf(AppendBuf(buf, c1, Len(population)), c2, Len(population))
    /\ bufLen' = Appended(bufLen, 2, Len(population))
    /\ idx' = idx + 2
    /\ pc' = "while"
    /\ rnd' = -1
    /\ UNCHANGED <<population, elitism, mutation, crossover, generation>>

\* Lines 208-213: the other path, population[idx] being in range.
evolve_copy ==
    /\ pc = "if"
    /\ ~(rnd <= crossover)
    /\ InRange(population, idx)
    /\ \E c \in MutationOutcomes(Item(population, idx), mutation) :
         buf' = AppendBuf(buf, c, Len(population))
    /\ bufLen' = Appended(bufLen, 1, Len(population))
    /\ idx' = PlusPlus(idx)
    /\ pc' = "while"
    /\ rnd' = -1
    /\ UNCHANGED <<population, elitism, mutation, crossover, generation>>

\* Lines 210, 212: population[idx] raises IndexError, which nothing catches.
evolve_raise ==
    /\ pc = "if"
    /\ ~(rnd <= crossover)
    /\ ~InRange(population, idx)
    /\ pc' = "raised"
    /\ UNCHANGED <<population, elitism, mutation, crossover, idx, buf, bufLen, rnd, generation>>

\* Lines 198, 215: the loop test fails and the next generation is stored.
evolve_end ==
    /\ pc = "while"
    /\ ~(idx < Len(population))
    /\ population' = NextGeneration(buf, Len(population))
    /\ pc' = "idle"
    /\ generation' = generation + 1
    /\ UNCHANGED <<elitism, mutation, crossover, idx, buf, bufLen, rnd>>

Next ==
    \/ evolve_begin /\ UNCHANGED chromVars
    \/ evolve_draw /\ UNCHANGED chromVars
    \/ evolve_crossover /\ UNCHANGED chromVars
    \/ evolve_copy /\ UNCHANGED chromVars
    \/ evolve_raise /\ UNCHANGED chromVars
    \/ evolve_end /\ UNCHANGED chromVars

Spec == Init /\ [][Next]_vars

\* The interpreter always takes its next step, and random() is a fair coin:
\* a draw that takes the crossover path, possible again and again, is made.
FairSpec ==
    /\ Spec
    /\ WF_vars(Next)
    /\ SF_vars(evolve_draw /\ rnd' <= crossover /\ UNCHANGED chromVars)

\* ------------------------------------------------- free-standing chromosomes
GenesOver(codes) == UNION {[1 .. n -> codes] : n \in 1 .. MaxGeneLen}

InitChromosome ==
    /\ chrom \in {Chromosome(g) : g \in GenesOver(SampleCodes)}
    /\ partner \in {Chromosome(g) : g \in GenesOver(PartnerCodes)}
    /\ children = <<>>
    /\ op = "none"
    /\ population = <<>>
    /\ elitism = 0
    /\ mutation = 0
    /\ crossover = 0
    /\ pc = "idle"
    /\ idx = 0
    /\ buf = <<>>
    /\ bufLen = 0
    /\ rnd = -1
    /\ generation = 0

\* The operations read neither children nor op, so one application from
\* each pair (chrom, partner) reaches every result.

\* Chromosome.genRandom()
do_genRandom ==
    /\ op = "none"
    /\ \E draws \in [1 .. Len(target_gene) -> GenDraws] :
         children' = <<genRandom(draws)>>
    /\ op' = "genRandom"
    /\ UNCHANGED <<chrom, partner>>

\* chrom.mate(partner)
do_mate ==
    /\ op = "none"
    /\ \E pivot \in MatePivots(chrom.gene) :
         children' = mate(chrom, partner, pivot)
    /\ op' = "mate"
    /\ UNCHANGED <<chrom, partner>>

\* chrom.mutate()
do_mutate ==
    /\ op = "none"
    /\ \E d \in AllRandint, i \in MutateIndices(chrom.gene) :
         children' = <<mutate(chrom, d, i)>>
    /\ op' = "mutate"
    /\ UNCHANGED <<chrom, partner>>

NextChromosome ==
    \/ do_genRandom /\ UNCHANGED popVars
    \/ do_mate /\ UNCHANGED popVars
    \/ do_mutate /\ UNCHANGED popVars

ChromosomeSpec == InitChromosome /\ [][NextChromosome]_vars

\* ------------------------------------------------------------------- claims
\* The fitness the documentation states: the sum over the positions paired
\* with the target of |code(gene[i]) - code(target[i])|.
RECURSIVE DistanceUpTo(_, _)
DistanceUpTo(gene, n) ==
    IF n = 0 THEN 0
    ELSE DistanceUpTo(gene, n - 1)
         + (IF gene[n] >= target_gene[n] THEN gene[n] - target_gene[n]
            ELSE target_gene[n] - gene[n])
Distance(gene) ==
    DistanceUpTo(gene, IF Len(gene) < Len(target_gene) THEN Len(gene) ELSE Len(target_gene))

CodesWithin(gene, lo, hi) == \A i \in 1 .. Len(gene) : lo <= gene[i] /\ gene[i] <= hi
IsSorted(seq) == \A i \in 1 .. Len(seq) : \A j \in i .. Len(seq) : seq[i].fitness <= seq[j].fitness
\* A step in which a call of evolve() returns.
EvolveReturns == pc = "while" /\ pc' = "idle"
\* The child made of a's first p characters and b's remaining ones.
Crossed(a, b, p) == [i \in 1 .. Len(a) |-> IF i <= p THEN a[i] ELSE b[i]]
MateResultFor(p) ==
    LET g1 == Crossed(chrom.gene, partner.gene, p)
        g2 == Crossed(partner.gene, chrom.gene, p)
    IN children = <<[gene |-> g1, fitness |-> Distance(g1)],
                    [gene |-> g2, fitness |-> Distance(g2)]>>
MateOfEqualLengths ==
    op = "mate" /\ Len(chrom.gene) = Len(partner.gene) /\ Len(chrom.gene) >= 2

\* C1: whenever a call of evolve() returns, the population has as many
\* members as before the call, in every one of the successive calls.
C1_SizePreserved == [][EvolveReturns => Len(population') = Len(population)]_vars

\* C1 witness: a second call has returned on a full-size population whose
\* buffer had overshot the size.
C1_Witness ==
    /\ pc = "idle"
    /\ generation >= 2
    /\ Len(population) = MaxSize
    /\ bufLen > Len(population)

\* C2: every call of evolve() terminates, whatever the crossover rate: a call
\* that has entered the fill loop eventually returns (or ends by raising).
\* Stated for elitismRate in [0,1), where no index is out of range.
C2_EvolveTerminates ==
    (pc \in {"while", "if"} /\ 0 <= elitism /\ elitism < 4)
        ~> (pc \in {"idle", "raised"})

\* C3: for elitismRate in (0,1) and k = round(size*elitismRate) >= 1, each of
\* the k best members before evolve() is in the population after it returns,
\* with the same gene and fitness.
C3_ElitesKept ==
    [][(EvolveReturns /\ 0 < elitism /\ elitism < 4
          /\ EliteCount(Len(population), elitism) >= 1)
        => \A i \in 1 .. EliteCount(Len(population), elitism) :
             \E j \in 1 .. Len(population') : population'[j] = population[i]]_vars

\* C3 witness: a call has returned with one elite of two members, the other
\* member replaced by a chromosome that was not in the elite's place.
C3_Witness ==
    /\ pc = "idle"
    /\ generation >= 1
    /\ 0 < elitism /\ elitism < 4
    /\ Len(population) = 2
    /\ EliteCount(Len(population), elitism) = 1
    /\ Len(buf) = 2
    /\ buf[2].fitness < buf[1].fitness

\* C4 as claimed: mate() of two genes of equal length L >= 2 returns the two
\* children cut at a single pivot p with 1 <= p <= L-1, never at pivot 0.
C4_PivotAtLeastOne ==
    MateOfEqualLengths => \E p \in 1 .. (Len(chrom.gene) - 1) : MateResultFor(p)

\* C4 amended: mate() of two genes of equal length L >= 2 returns two children
\* of length L cut at a single pivot p with 0 <= p <= L-1.
C4_MateSinglePivot ==
    MateOfEqualLengths =>
        /\ \E p \in 0 .. (Len(chrom.gene) - 1) : MateResultFor(p)
        /\ \A c \in 1 .. Len(children) : Len(children[c].gene) = Len(chrom.gene)

\* C4 witness: mate() has returned the two parents swapped (pivot 0), which
\* no pivot in 1..L-1 produces.
C4_Witness ==
    /\ MateOfEqualLengths
    /\ children[1] = partner
    /\ children[2] = chrom
    /\ \A p \in 1 .. (Len(chrom.gene) - 1) : ~MateResultFor(p)

\* C5: mutate() of a chromosome with a non-empty gene returns one chromosome
\* whose gene has the same length and differs in at most one position i, where
\* the new code is (old code + delta) mod 122 for a delta in 32..121, and whose
\* fitness is that of the new gene; the original chromosome is unchanged.
C5_MutateOnePosition ==
    [][op' = "mutate" =>
        /\ chrom' = chrom
        /\ chrom'.fitness = Distance(chrom.gene)
        /\ Len(children') = 1
        /\ Len(children'[1].gene) = Len(chrom.gene)
        /\ children'[1].fitness = Distance(children'[1].gene)
        /\ \E i \in 1 .. Len(chrom.gene) :
             /\ \E delta \in 32 .. 121 :
                  children'[1].gene[i] = (chrom.gene[i] + delta) % 122
             /\ \A j \in 1 .. Len(chrom.gene) :
                  j # i => children'[1].gene[j] = chrom.gene[j]]_vars

\* C5 witness: mutate() has changed the second character of a two-character
\* gene into a code below 32.
C5_Witness ==
    /\ op = "mutate"
    /\ Len(chrom.gene) = 2
    /\ children[1].gene[1] = chrom.gene[1]
    /\ children[1].gene[2] # chrom.gene[2]
    /\ children[1].gene[2] < 32

\* C6: after construction and after every evolve() call the members are
\* sorted non-decreasing by fitness, the first having the least fitness, and
\* each member's fitness is the distance of its gene from the target.
C6_SortedByFitness ==
    /\ IsSorted(population)
    /\ \A i \in 1 .. Len(population) :
         /\ population[1].fitness <= population[i].fitness
         /\ population[i].fitness = Distance(population[i].gene)

\* C6 witness: a call has returned whose buffer was not in fitness order.
C6_Witness ==
    /\ pc = "idle"
    /\ generation >= 1
    /\ Len(population) = 2
    /\ Len(buf) = 2
    /\ buf[1].fitness > buf[2].fitness
    /\ population = <<buf[2], buf[1]>>

\* C7: an iteration of the fill loop that takes the non-crossover path
\* appends exactly one entry to the buffer and increases idx by exactly 1.
\* Stated for elitismRate in [0,1].
C7_CopyAdvancesIdx ==
    [][(pc = "if" /\ ~(rnd <= crossover) /\ pc' = "while"
          /\ 0 <= elitism /\ elitism <= 4)
        => /\ idx' = idx + 1
           /\ bufLen' = Appended(bufLen, 1, Len(population))]_vars

\* C8: for size >= 1 and elitismRate in [0,1], when the fill loop exits the
\* buffer holds size or size + 1 entries.
C8_OvershootAtMostOne ==
    (/\ pc = "while"
     /\ ~(idx < Len(population))
     /\ Len(population) >= 1
     /\ 0 <= elitism /\ elitism <= 4)
    => bufLen \in {Len(population), Len(population) + 1}

\* C9: when the elite count k is at least 1 and at most size, the best
\* fitness never increases from one completed evolve() call to the next, and
\* a population holding a member of fitness 0 holds one after the call.
C9_BestNeverWorse ==
    [][(EvolveReturns /\ EliteCount(Len(population), elitism) >= 1
          /\ EliteCount(Len(population), elitism) <= Len(population))
        => /\ Len(population') >= 1
           /\ population'[1].fitness <= population[1].fitness
           /\ ((\E i \in 1 .. Len(population) : population[i].fitness = 0)
                => \E j \in 1 .. Len(population') : population'[j].fitness = 0)]_vars

\* C9 witness: two calls have returned with elite count 1 of 2, the best
\* member matching the target and the other one not.
C9_Witness ==
    /\ pc = "idle"
    /\ generation >= 2
    /\ Len(population) = 2
    /\ EliteCount(Len(population), elitism) = 1
    /\ population[1].fitness = 0
    /\ population[2].fitness > 0

\* C10: mutate() of a gene whose codes are all in 0..121 returns a gene that
\* differs from it in exactly one position, and genRandom(), mate() and
\* mutate() keep the codes in 0..121.
C10_MutateNeverNoOp ==
    /\ (op = "mutate" /\ CodesWithin(chrom.gene, 0, 121))
         => /\ Cardinality({i \in 1 .. Len(chrom.gene) :
                              children[1].gene[i] # chrom.gene[i]}) = 1
            /\ CodesWithin(children[1].gene, 0, 121)
    /\ op = "genRandom" => CodesWithin(children[1].gene, 32, 121)
    /\ (op = "mate" /\ CodesWithin(chrom.gene, 0, 121) /\ CodesWithin(partner.gene, 0, 121))
         => \A c \in 1 .. Len(children) : CodesWithin(children[c].gene, 0, 121)

\* C10 witness: mutate() with delta 121 has turned code 121 into 120, the
\* nearest a mutation comes to returning the same character.
C10_Witness ==
    /\ op = "mutate"
    /\ CodesWithin(chrom.gene, 0, 121)
    /\ chrom.gene[1] = 121
    /\ children[1].gene[1] = 120

====
